---------------------------- MODULE Spec2Model ----------------------------
(***************************************************************************)
(* Model of the Solana payment gateway demo: the App component and its     *)
(* in-memory payments list, the PaymentForm component (balance effect,     *)
(* debounced quote effect, handleSubmit), and the pure helpers of          *)
(* utils/solana and utils/jupiter (createPaymentTransaction, getQuote,     *)
(* executeSwap, getMockExchangeRate).                                      *)
(*                                                                         *)
(* Numbers.  JavaScript numbers are modelled by exact non-negative         *)
(* rationals <<n, d>> in lowest terms (d > 0), so "within rounding         *)
(* tolerance" of the IEEE doubles becomes exact arithmetic.  A quantity in *)
(* base units of a token with k decimals (x * 10^k in the source) is kept  *)
(* as the record [q |-> x, dec |-> k], i.e. the rational q such that the   *)
(* source number is q * 10^k; Math.floor(x * 10^k) is computed by long     *)
(* division (FloorUnits).  This keeps every integer within TLC's 32 bits.  *)
(***************************************************************************)
EXTENDS Integers, Sequences, FiniteSets, TLC

(***************************************************************************)
(* Exact arithmetic                                                        *)
(***************************************************************************)
\* The helpers are written as functions applied to their arguments: a function
\* is applied to the values of its arguments, so an argument is computed once
\* however often it is used and however deep a recursion goes.
GCD(a, b) ==
  LET gcd[x \in Int, y \in Int] == IF y = 0 THEN x ELSE gcd[y, x % y]
  IN  gcd[a, b]

Rat(n, d) ==
  LET reduce[a \in Int, b \in Int, g \in Int] == <<a \div g, b \div g>>
  IN  reduce[n, d, GCD(n, d)]

Whole(n) ==
  <<n, 1>>

RatMul(x, y) ==
  LET cross[p \in Int \X Int, q \in Int \X Int, g1 \in Int, g2 \in Int] ==
        Rat((p[1] \div g1) * (q[1] \div g2), (p[2] \div g2) * (q[2] \div g1))
      mul[p \in Int \X Int, q \in Int \X Int] ==
        cross[p, q, GCD(p[1], q[2]), GCD(q[1], p[2])]
  IN  mul[x, y]

RatInv(x) ==
  <<x[2], x[1]>>

RatSub(x, y) ==
  LET sub[p \in Int \X Int, q \in Int \X Int] ==
        Rat(p[1] * q[2] - q[1] * p[2], p[2] * q[2])
  IN  sub[x, y]

RatLess(x, y) ==
  x[1] * y[2] < y[1] * x[2]

RatAbsDiff(x, y) ==
  IF RatLess(x, y) THEN RatSub(y, x) ELSE RatSub(x, y)

Pow10(k) ==
  LET pow[n \in Nat] == IF n = 0 THEN 1 ELSE 10 * pow[n - 1]
  IN  pow[k]

\* Long division without a product above d: a pair <<q, r>> stands for
\* q * d + r with r < d.
AddMod(x, y, d) ==
  IF x[2] >= d - y[2]
    THEN <<x[1] + y[1] + 1, x[2] - (d - y[2])>>
    ELSE <<x[1] + y[1], x[2] + y[2]>>

\* <<(10 * rem) \div d, (10 * rem) % d>> for rem < d
TimesTen(rem, d) ==
  LET add[x \in Nat \X Nat, y \in Nat \X Nat] == AddMod(x, y, d)
      dbl[x \in Nat \X Nat] == add[x, x]
  IN  dbl[add[dbl[dbl[<<0, rem>>]], <<0, rem>>]]

\* The first k decimal digits of rem / d (rem < d), as an integer below 10^k.
FracDigits(rem, d, k) ==
  LET step[t \in Nat \X Nat, n \in Nat] ==
        IF n = 0 THEN 0
        ELSE t[1] * Pow10(n - 1)
               + (IF t[2] = 0 \/ n = 1 THEN 0 ELSE step[TimesTen(t[2], d), n - 1])
  IN  IF k = 0 \/ rem = 0 THEN 0 ELSE step[TimesTen(rem, d), k]

\* Math.floor left out: the amount is kept as it is.
FloorDec_Exact(x, k) ==
  x

\* Math.floor(x * 10^k) / 10^k as a rational in lowest terms.
FloorDec(x, k) ==
  LET join[whole \in Int, frac \in Int \X Int] == <<whole * frac[2] + frac[1], frac[2]>>
      floor[p \in Int \X Int] ==
        join[p[1] \div p[2], Rat(FracDigits(p[1] % p[2], p[2], k), Pow10(k))]
  IN  floor[x]

\* x * 10^k, not rounded (amount * (10 ** decimals)).
ScaleUnits(x, k) ==
  [q |-> x, dec |-> k]

\* Math.floor(x * 10^k).
FloorUnits(x, k) ==
  [q |-> FloorDec(x, k), dec |-> k]

(***************************************************************************)
(* utils/solana: the token registry                                        *)
(***************************************************************************)
\* LAMPORTS_PER_SOL is 10^LamportDecimals.
LamportDecimals ==
  9

TOKENS ==
  [ SOL  |-> [symbol |-> "SOL",  mint |-> "So11111111111111111111111111111111111111112",
              decimals |-> 9],
    USDC |-> [symbol |-> "USDC", mint |-> "EPjFWdd5AufqSSqeM2qN1xzybapC8G4wEGGkZwyTDt1v",
              decimals |-> 6],
    USDT |-> [symbol |-> "USDT", mint |-> "Es9vMFrzaCERmJfrF4H2FYD4KCoNkY11McCe8BenwNYB",
              decimals |-> 6],
    BONK |-> [symbol |-> "BONK", mint |-> "DezXAZ8z7PnrnRJjz3wXBoRgixCa6xjnB7YaB1pPB263",
              decimals |-> 5],
    JUP  |-> [symbol |-> "JUP",  mint |-> "JUPyiwrYJFskUPiHa7hkeR8VUtAeFoSYbKedZNsDvCN",
              decimals |-> 6] ]

\* Object.values(TOKENS)
TokenValues ==
  {TOKENS[k] : k \in DOMAIN TOKENS}

Mints ==
  {t.mint : t \in TokenValues}

\* Object.values(TOKENS).find(t => t.mint === mint) || fallback
FindToken(mint, fallback) ==
  IF mint \in Mints THEN CHOOSE t \in TokenValues : t.mint = mint ELSE fallback

(***************************************************************************)
(* utils/jupiter: the mock rate table, getQuote and executeSwap            *)
(***************************************************************************)
\* rates[from][to]; 1/150.25 = 4/601 and 1/150.15 = 20/3003 exactly.
rates ==
  [ SOL  |-> [USDC |-> Rat(15025, 100), USDT |-> Rat(15015, 100), BONK |-> Whole(1000000)],
    USDC |-> [SOL |-> RatInv(Rat(15025, 100)), USDT |-> Rat(998, 1000), BONK |-> Whole(6500)],
    USDT |-> [SOL |-> RatInv(Rat(15015, 100)), USDC |-> Rat(1002, 1000), BONK |-> Whole(6520)],
    BONK |-> [SOL |-> Rat(1, 1000000), USDC |-> Rat(15, 100000), USDT |-> Rat(15, 100000)] ]

\* rates[a]?.[b] is truthy
HasRate(a, b) ==
  a \in DOMAIN rates /\ b \in DOMAIN rates[a]

\* getMockExchangeRate were it to try the reverse entry before the direct one.
getMockExchangeRate_InverseFirst(fromSymbol, toSymbol) ==
  IF HasRate(toSymbol, fromSymbol)
    THEN RatInv(rates[toSymbol][fromSymbol])
  ELSE IF HasRate(fromSymbol, toSymbol)
    THEN rates[fromSymbol][toSymbol]
  ELSE IF HasRate(fromSymbol, "USDC") /\ HasRate("USDC", toSymbol)
    THEN RatMul(rates[fromSymbol]["USDC"], rates["USDC"][toSymbol])
  ELSE Whole(1)

getMockExchangeRate(fromSymbol, toSymbol) ==
  IF HasRate(fromSymbol, toSymbol)
    THEN rates[fromSymbol][toSymbol]
  ELSE IF HasRate(toSymbol, fromSymbol)
    THEN RatInv(rates[toSymbol][fromSymbol])
  ELSE IF HasRate(fromSymbol, "USDC") /\ HasRate("USDC", toSymbol)
    THEN RatMul(rates[fromSymbol]["USDC"], rates["USDC"][toSymbol])
  ELSE Whole(1)

FeeRate ==
  Rat(3, 1000)

\* getQuote were its threshold to allow 5% instead of 0.5%.
getQuote_WideThreshold(inputToken, outputToken, amount) ==
  LET outputAmount == RatMul(amount, getMockExchangeRate(inputToken.symbol,
                                                         outputToken.symbol))
  IN  [ inputMint   |-> inputToken.mint,
        outputMint  |-> outputToken.mint,
        inAmount    |-> ScaleUnits(amount, inputToken.decimals),
        outAmount   |-> FloorUnits(outputAmount, outputToken.decimals),
        otherAmountThreshold |->
          FloorUnits(RatMul(outputAmount, Rat(95, 100)), outputToken.decimals),
        slippageBps |-> 50,
        platformFee |-> [amount |-> FloorUnits(RatMul(amount, FeeRate), inputToken.decimals),
                         feeBps |-> 30],
        priceImpactPct |-> Rat(1, 10) ]

getQuote(inputToken, outputToken, amount) ==
  LET mockRate     == getMockExchangeRate(inputToken.symbol, outputToken.symbol)
      outputAmount == RatMul(amount, mockRate)
      fee          == RatMul(amount, FeeRate)
  IN  [ inputMint   |-> inputToken.mint,
        outputMint  |-> outputToken.mint,
        inAmount    |-> ScaleUnits(amount, inputToken.decimals),
        outAmount   |-> FloorUnits(outputAmount, outputToken.decimals),
        otherAmountThreshold |->
          FloorUnits(RatMul(outputAmount, Rat(995, 1000)), outputToken.decimals),
        slippageBps |-> 50,
        platformFee |-> [amount |-> FloorUnits(fee, inputToken.decimals), feeBps |-> 30],
        priceImpactPct |-> Rat(1, 10) ]

DefaultSlippageBps ==
  50

\* executeSwap were it to leave the slippage out of outputAmount.
executeSwap_NoSlippage(inputToken, outputToken, amount, slippageBps) ==
  [ inputAmount  |-> amount,
    outputAmount |-> RatMul(amount, getMockExchangeRate(inputToken.symbol,
                                                        outputToken.symbol)),
    inputToken   |-> inputToken.symbol,
    outputToken  |-> outputToken.symbol,
    fee          |-> RatMul(amount, Rat(3, 1000)) ]

executeSwap(inputToken, outputToken, amount, slippageBps) ==
  LET mockRate     == getMockExchangeRate(inputToken.symbol, outputToken.symbol)
      outputAmount == RatMul(RatMul(amount, mockRate),
                             RatSub(Whole(1), Rat(slippageBps, 10000)))
  IN  [ inputAmount  |-> amount,
        outputAmount |-> outputAmount,
        inputToken   |-> inputToken.symbol,
        outputToken  |-> outputToken.symbol,
        fee          |-> RatMul(amount, FeeRate) ]

(***************************************************************************)
(* utils/solana: createPaymentTransaction                                  *)
(***************************************************************************)
ComputeUnits ==
  200000

\* getAssociatedTokenAddress(mint, owner)
AssociatedTokenAddress(mint, owner) ==
  <<"ata", mint, owner>>

\* createPaymentTransaction were it to add the compute budget instruction
\* after the transfer instead of first.
createPaymentTransaction_BudgetLast(amt, tokenMint, fromWallet, toWallet, getAccountReturns) ==
  LET budget == [op |-> "setComputeUnitLimit", units |-> ComputeUnits]
  IN  IF tokenMint = TOKENS.SOL.mint
        THEN [ threw |-> FALSE,
               instructions |->
                 << [op |-> "systemTransfer", fromPubkey |-> fromWallet,
                     toPubkey |-> toWallet,
                     lamports |-> FloorUnits(amt, LamportDecimals)],
                    budget >> ]
        ELSE LET fromTokenAccount == AssociatedTokenAddress(tokenMint, fromWallet)
                 toTokenAccount   == AssociatedTokenAddress(tokenMint, toWallet)
                 create   == [op |-> "createAssociatedTokenAccount", payer |-> fromWallet,
                              account |-> toTokenAccount, owner |-> toWallet,
                              mint |-> tokenMint]
                 tokenInfo == CHOOSE t \in TokenValues : t.mint = tokenMint
                 transfer == [op |-> "tokenTransfer", source |-> fromTokenAccount,
                              destination |-> toTokenAccount, owner |-> fromWallet,
                              amount |-> FloorUnits(amt, tokenInfo.decimals)]
             IN  IF tokenMint \notin Mints
                   THEN [threw |-> TRUE, instructions |-> << >>]
                   ELSE [ threw |-> FALSE,
                          instructions |-> IF getAccountReturns
                                             THEN <<transfer, budget>>
                                             ELSE <<create, transfer, budget>> ]

\* What createPaymentTransaction returns: the instructions of the transaction,
\* or the Error thrown for a mint the registry does not hold.  getAccountReturns
\* is the outcome of await getAccount(connection, toTokenAccount): it returns
\* the account, or it throws and the catch block (which catches every error)
\* runs.  A failure of connection.getLatestBlockhash is the action BuildThrows.
createPaymentTransaction(amt, tokenMint, fromWallet, toWallet, getAccountReturns) ==
  LET budget == [op |-> "setComputeUnitLimit", units |-> ComputeUnits]
  IN  IF tokenMint = TOKENS.SOL.mint
        THEN [ threw |-> FALSE,
               instructions |->
                 << budget,
                    [op |-> "systemTransfer", fromPubkey |-> fromWallet,
                     toPubkey |-> toWallet,
                     lamports |-> FloorUnits(amt, LamportDecimals)] >> ]
        ELSE LET fromTokenAccount == AssociatedTokenAddress(tokenMint, fromWallet)
                 toTokenAccount   == AssociatedTokenAddress(tokenMint, toWallet)
                 create   == [op |-> "createAssociatedTokenAccount", payer |-> fromWallet,
                              account |-> toTokenAccount, owner |-> toWallet,
                              mint |-> tokenMint]
                 tokenInfo == CHOOSE t \in TokenValues : t.mint = tokenMint
                 transfer == [op |-> "tokenTransfer", source |-> fromTokenAccount,
                              destination |-> toTokenAccount, owner |-> fromWallet,
                              amount |-> FloorUnits(amt, tokenInfo.decimals)]
             IN  IF tokenMint \notin Mints
                   THEN [threw |-> TRUE, instructions |-> << >>]
                   ELSE [ threw |-> FALSE,
                          instructions |-> IF getAccountReturns
                                             THEN <<budget, transfer>>
                                             ELSE <<budget, create, transfer>> ]

(***************************************************************************)
(* App and PaymentForm                                                     *)
(***************************************************************************)
merchant ==
  [ id |-> "merchant-1",
    walletAddress |-> "5YNmS1R9nNSCDzb5a7mMJ1dwK9uHeAAF4CmPEwKgVWc8",
    preferredToken |-> TOKENS.USDC.mint ]

\* The props App passes to PaymentForm.
merchantAddress ==
  merchant.walletAddress

preferredToken ==
  merchant.preferredToken

\* useState<Payment[]>([...]) of App (timestamps and signatures left out).
InitialPayments ==
  << [id |-> "payment-1", amount |-> Rat(105, 10), token |-> TOKENS.USDC.mint,
      status |-> "completed", merchantId |-> merchant.id,
      customerWallet |-> "7UX2i7SucgLMQcfZ75s3VXmZZY4YRUyJN9X1RgfMoDUi", txSignature |-> "sig0"],
     [id |-> "payment-2", amount |-> Rat(525, 100), token |-> TOKENS.USDC.mint,
      status |-> "completed", merchantId |-> merchant.id,
      customerWallet |-> "2qXdVr7JKRm4QfVA11vZ6FHPqvZXP4HxMrmdRP7isnKW", txSignature |-> "sig0"],
     [id |-> "payment-3", amount |-> Rat(275, 100), token |-> TOKENS.SOL.mint,
      status |-> "completed", merchantId |-> merchant.id,
      customerWallet |-> "9ZNTfG4NyQgxy2SWjSiQoUyBPEvXT2xo7fKc5hPYYJ7b", txSignature |-> "sig0"] >>

\* Bounds of the model.
MaxFlows ==
  2

\* How many times the user edits the form or disconnects the wallet.
MaxEdits ==
  1

\* Values the user types into the amount input (parseFloat(value) || 0).
AmountChoices ==
  {Whole(0), Whole(1), Whole(6)}

\* Values of the mock balance: 5 + Math.random() * 2 for SOL, 100 +
\* Math.random() * 50 for the other tokens.
BalanceChoices(mint) ==
  IF mint = TOKENS.SOL.mint THEN {Whole(5), Whole(6)} ELSE {Whole(100)}

\* Values mockSendTransaction returns (a random base58 string).
Signatures ==
  {"mockSignature"}

NoKey ==
  "none"

WalletKey ==
  "customerPk"

NoQuote ==
  [inputMint |-> "none"]

NoBalance ==
  << >>

NoError ==
  ""

NoTimer ==
  [armed |-> FALSE]

VARIABLES
  payments,          \* App: useState<Payment[]>
  view,              \* App: 'customer' | 'merchant'
  isLoading,         \* App: useState(true)
  publicKey,         \* useWallet(): publicKey; connected is publicKey # NoKey
  amount,            \* PaymentForm state of the mounted instance
  selectedToken,
  isProcessing,
  quote,
  error,
  success,
  tokenBalance,
  isLoadingBalance,
  paymentStatus,
  balanceToken,      \* history: the token tokenBalance was fetched for
  quoteTimer,        \* the pending setTimeout(fetchQuote, 500)
  quoteCall,         \* the getQuote call fetchQuote is awaiting
  balanceFetches,    \* fetchBalance calls awaiting their 500 ms timer, oldest first
  flows,             \* the running handleSubmit invocations, by ordinal
  submitted,         \* history: the submissions accepted so far
  edits,             \* history: the edits and disconnects so far
  probe              \* inputs and results of the helper functions (FnSpec)

appVars ==
  <<payments, view, isLoading, publicKey, amount, selectedToken, isProcessing,
    quote, error, success, tokenBalance, isLoadingBalance, paymentStatus, balanceToken,
    quoteTimer, quoteCall, balanceFetches, flows, submitted, edits>>

formVars ==
  <<amount, selectedToken, isProcessing, quote, error, success, tokenBalance,
    paymentStatus, balanceToken>>

vars ==
  <<appVars, probe>>

connected ==
  publicKey # NoKey

\* PaymentForm is rendered by App (lines 102-123).
mounted ==
  ~isLoading /\ view = "customer"

selectedTokenInfo ==
  FindToken(selectedToken, TOKENS.SOL)

preferredTokenInfo ==
  FindToken(preferredToken, TOKENS.USDC)

NoProbe ==
  [fn |-> "none"]

NoCall ==
  [pending |-> FALSE]

\* The event loop is between tasks: no continuation of an awaited, already
\* resolved promise (getQuote has no await of its own) is due.
Idle ==
  ~quoteCall.pending

\* The <form> is rendered (lines 380-404).
formShown ==
  mounted /\ connected /\ ~success

ZeroUnits(k) ==
  [q |-> Whole(0), dec |-> k]

\* min="0.000001" step="0.000001" required: the browser fires onSubmit only
\* for a value that is at least the minimum and a whole number of steps.
MinAmount ==
  Rat(1, 1000000)

ValidAmount(a) ==
  ~RatLess(a, MinAmount) /\ Pow10(6) % a[2] = 0

\* The submit button is not disabled (line 520).
submitEnabled ==
  ~(isProcessing \/ publicKey = NoKey \/ quote = NoQuote \/ paymentStatus = "quoting")

ArmTimer(a, mint) ==
  [armed |-> TRUE, amount |-> a, selectedToken |-> mint]

(***************************************************************************)
(* Mounting and unmounting PaymentForm                                     *)
(***************************************************************************)
\* A new instance: the useState initial values, then both effects run.
Mount ==
  /\ amount' = Whole(1)
  /\ selectedToken' = TOKENS.SOL.mint
  /\ isProcessing' = FALSE
  /\ quote' = NoQuote
  /\ error' = NoError
  /\ success' = FALSE
  /\ tokenBalance' = NoBalance
  /\ balanceToken' = "none"
  /\ paymentStatus' = "idle"
  /\ IF connected
       THEN /\ isLoadingBalance' = TRUE
            /\ balanceFetches' = <<[token |-> TOKENS.SOL.mint]>>
       ELSE /\ isLoadingBalance' = FALSE
            /\ balanceFetches' = << >>
  /\ quoteTimer' = ArmTimer(Whole(1), TOKENS.SOL.mint)
  /\ quoteCall' = NoCall

\* The instance is discarded: the effect cleanup clears the quote timer, and
\* what its pending fetchBalance calls and handleSubmit invocations set later
\* is set on no component.  The state variables of the form hold the initial
\* values while no form exists.
Unmount ==
  /\ flows' = [f \in DOMAIN flows |-> [flows[f] EXCEPT !.live = FALSE]]
  /\ amount' = Whole(1)
  /\ selectedToken' = TOKENS.SOL.mint
  /\ isProcessing' = FALSE
  /\ quote' = NoQuote
  /\ error' = NoError
  /\ success' = FALSE
  /\ tokenBalance' = NoBalance
  /\ balanceToken' = "none"
  /\ paymentStatus' = "idle"
  /\ isLoadingBalance' = FALSE
  /\ balanceFetches' = << >>
  /\ quoteTimer' = NoTimer
  /\ quoteCall' = NoCall

\* App: the setTimeout(() => setIsLoading(false), 1000) of the mount effect.
LoadingDone ==
  /\ isLoading
  /\ isLoading' = FALSE
  /\ IF view = "customer"
       THEN Mount
       ELSE UNCHANGED <<formVars, isLoadingBalance, balanceFetches, quoteTimer, quoteCall>>
  /\ UNCHANGED <<payments, view, publicKey, flows, submitted, edits, probe>>

\* App: onClick={() => setView(view === 'customer' ? 'merchant' : 'customer')}
ToggleView ==
  /\ Idle
  /\ view' = IF view = "customer" THEN "merchant" ELSE "customer"
  /\ IF isLoading
       THEN UNCHANGED <<formVars, isLoadingBalance, balanceFetches, quoteTimer, quoteCall,
                       flows>>
       ELSE IF view = "customer"
              THEN Unmount
              ELSE Mount /\ UNCHANGED flows
  /\ UNCHANGED <<payments, isLoading, publicKey, submitted, edits, probe>>

(***************************************************************************)
(* The wallet and the balance effect                                       *)
(***************************************************************************)
\* The wallet adapter sets publicKey and connected; the effect of lines
\* 190-214 runs again in a mounted form.
WalletConnect ==
  /\ Idle
  /\ publicKey = NoKey
  /\ publicKey' = WalletKey
  /\ IF mounted
       THEN /\ isLoadingBalance' = TRUE
            /\ balanceFetches' = Append(balanceFetches, [token |-> selectedToken])
       ELSE UNCHANGED <<isLoadingBalance, balanceFetches>>
  /\ UNCHANGED <<payments, view, isLoading, formVars, quoteTimer, quoteCall,
                 flows, submitted, edits, probe>>

WalletDisconnect ==
  /\ Idle
  /\ edits < MaxEdits
  /\ edits' = edits + 1
  /\ publicKey # NoKey
  /\ publicKey' = NoKey
  /\ IF mounted
       THEN tokenBalance' = NoBalance /\ balanceToken' = "none"
       ELSE UNCHANGED <<tokenBalance, balanceToken>>
  /\ UNCHANGED <<payments, view, isLoading, amount, selectedToken, isProcessing,
                 quote, error, success, paymentStatus, isLoadingBalance, balanceFetches,
                 quoteTimer, quoteCall, flows, submitted, probe>>

\* fetchBalance after its await of 500 ms: timers of one delay fire in the
\* order they were set, so the oldest call resumes first.
BalanceResolve ==
  /\ Idle
  /\ balanceFetches # << >>
  /\ \E mockBalance \in BalanceChoices(Head(balanceFetches).token) :
       /\ tokenBalance' = mockBalance
       /\ balanceToken' = Head(balanceFetches).token
  /\ isLoadingBalance' = FALSE
  /\ balanceFetches' = Tail(balanceFetches)
  /\ UNCHANGED <<payments, view, isLoading, publicKey, amount, selectedToken,
                 isProcessing, quote, error, success, paymentStatus, quoteTimer,
                 quoteCall, flows, submitted, edits, probe>>

(***************************************************************************)
(* The inputs and the debounced quote effect                               *)
(***************************************************************************)
\* onChange={(e) => setAmount(parseFloat(e.target.value) || 0)}; the effect of
\* lines 217-258 clears the pending timer and sets a new one.
ChangeAmount ==
  /\ Idle
  /\ edits < MaxEdits
  /\ edits' = edits + 1
  /\ formShown
  /\ ~isProcessing
  /\ \E a \in AmountChoices \ {amount} :
       /\ amount' = a
       /\ quoteTimer' = ArmTimer(a, selectedToken)
  /\ UNCHANGED <<payments, view, isLoading, publicKey, selectedToken, isProcessing,
                 quote, error, success, tokenBalance, isLoadingBalance, paymentStatus,
                 balanceToken, quoteCall, balanceFetches, flows, submitted, probe>>

\* onChange={(e) => setSelectedToken(e.target.value)}: both effects run again.
SelectToken ==
  /\ Idle
  /\ edits < MaxEdits
  /\ edits' = edits + 1
  /\ formShown
  /\ ~isProcessing
  /\ \E mint \in Mints \ {selectedToken} :
       /\ selectedToken' = mint
       /\ quoteTimer' = ArmTimer(amount, mint)
       /\ balanceFetches' = Append(balanceFetches, [token |-> mint])
  /\ isLoadingBalance' = TRUE
  /\ UNCHANGED <<payments, view, isLoading, publicKey, amount, isProcessing,
                 quote, error, success, tokenBalance, paymentStatus, balanceToken,
                 quoteCall, flows, submitted, probe>>

\* The Max button: onClick={() => setAmount(tokenBalance)}
ClickMax ==
  /\ Idle
  /\ edits < MaxEdits
  /\ edits' = edits + 1
  /\ formShown
  /\ tokenBalance # NoBalance
  /\ ~(isLoadingBalance \/ isProcessing)
  /\ amount # tokenBalance
  /\ amount' = tokenBalance
  /\ quoteTimer' = ArmTimer(tokenBalance, selectedToken)
  /\ UNCHANGED <<payments, view, isLoading, publicKey, selectedToken, isProcessing,
                 quote, error, success, tokenBalance, isLoadingBalance, paymentStatus,
                 balanceToken, quoteCall, balanceFetches, flows, submitted, probe>>

\* The quote fetchQuote builds itself when no swap is needed (lines 222-232).
DirectQuote(a, mint) ==
  [ inputMint      |-> mint,
    outputMint     |-> preferredToken,
    inAmount       |-> ScaleUnits(a, FindToken(mint, TOKENS.SOL).decimals),
    outAmount      |-> ScaleUnits(a, preferredTokenInfo.decimals),
    platformFee    |-> [amount |-> ZeroUnits(FindToken(mint, TOKENS.SOL).decimals),
                        feeBps |-> 0],
    priceImpactPct |-> Whole(0) ]

\* The debounce timer fires: fetchQuote up to its return or its await.
QuoteTimerFires ==
  /\ Idle
  /\ quoteTimer.armed
  /\ quoteTimer' = NoTimer
  /\ IF RatLess(Whole(0), quoteTimer.amount)
       THEN IF quoteTimer.selectedToken = preferredToken
              THEN /\ quote' = DirectQuote(quoteTimer.amount, quoteTimer.selectedToken)
                   /\ UNCHANGED <<paymentStatus, quoteCall>>
              ELSE /\ paymentStatus' = "quoting"
                   /\ quoteCall' = [ pending     |-> TRUE,
                                     inputToken  |-> FindToken(quoteTimer.selectedToken,
                                                               TOKENS.SOL),
                                     outputToken |-> preferredTokenInfo,
                                     amount      |-> quoteTimer.amount ]
                   /\ UNCHANGED quote
       ELSE UNCHANGED <<quote, paymentStatus, quoteCall>>
  /\ UNCHANGED <<payments, view, isLoading, publicKey, amount, selectedToken,
                 isProcessing, error, success, tokenBalance, isLoadingBalance,
                 balanceToken, balanceFetches, flows, submitted, edits, probe>>

\* fetchQuote after await getQuote(...): the continuation runs before any
\* other task.  getQuote only computes, so its catch branch is never taken.
QuoteResolves ==
  /\ quoteCall.pending
  /\ quote' = getQuote(quoteCall.inputToken, quoteCall.outputToken, quoteCall.amount)
  /\ error' = NoError
  /\ paymentStatus' = "idle"
  /\ quoteCall' = NoCall
  /\ UNCHANGED <<payments, view, isLoading, publicKey, amount, selectedToken,
                 isProcessing, success, tokenBalance, isLoadingBalance, balanceToken,
                 quoteTimer, balanceFetches, flows, submitted, edits, probe>>

\* resetForm (the "Make Another Payment" button of the success view)
ResetForm ==
  /\ Idle
  /\ mounted /\ connected /\ success
  /\ success' = FALSE
  /\ paymentStatus' = "idle"
  /\ amount' = Whole(1)
  /\ quoteTimer' = IF amount = Whole(1) THEN quoteTimer ELSE ArmTimer(Whole(1), selectedToken)
  /\ UNCHANGED <<payments, view, isLoading, publicKey, selectedToken, isProcessing,
                 quote, error, tokenBalance, isLoadingBalance, balanceToken, quoteCall,
                 balanceFetches, flows, submitted, edits, probe>>

(***************************************************************************)
(* handleSubmit                                                            *)
(***************************************************************************)
NoSwap ==
  [inputToken |-> "none"]

\* No handleSubmit invocation is running.
NoFlows ==
  [f \in {} |-> NoSwap]

\* The form instance invocation f belongs to is still mounted, so that the
\* state it sets is state of a live component.
Live(f) ==
  flows[f].live

\* The balance check of line 273, as it would be were it left out.
InsufficientBalance_Skipped ==
  FALSE

\* tokenBalance !== null && amount > tokenBalance (line 273)
InsufficientBalance ==
  tokenBalance # NoBalance /\ RatLess(tokenBalance, amount)

\* handleSubmit were it to build the transaction before the swap has run.
NewFlow_BuildFirst ==
  [ live          |-> TRUE,
    pc            |-> "build",
    amount        |-> amount,
    selectedToken |-> selectedToken,
    publicKey     |-> publicKey,
    closurePayments |-> payments,
    swapResult    |-> [inputToken |-> "none"],
    buildAmount   |-> amount,
    buildToken    |-> preferredToken,
    txSignature   |-> "" ]

\* The invocation at the first await of its try block: the 1500 ms wait on
\* the swap path, createPaymentTransaction on the direct path.  It holds the
\* state and props of the render the handler was created in; its
\* onPaymentComplete is that render's handlePaymentComplete, which holds that
\* render's payments.
NewFlow ==
  [ live          |-> TRUE,
    pc            |-> IF selectedToken # preferredToken THEN "swapDelay" ELSE "build",
    amount        |-> amount,
    selectedToken |-> selectedToken,
    publicKey     |-> publicKey,
    closurePayments |-> payments,
    swapResult    |-> NoSwap,
    buildAmount   |-> amount,
    buildToken    |-> IF selectedToken # preferredToken THEN preferredToken ELSE selectedToken,
    txSignature   |-> "" ]

\* onSubmit of the form, fired by the enabled submit button on a valid input.
HandleSubmit ==
  /\ Idle
  /\ formShown
  /\ submitEnabled
  /\ ValidAmount(amount)
  /\ IF publicKey = NoKey
       THEN /\ error' = "Please connect your wallet first"
            /\ UNCHANGED <<isProcessing, success, paymentStatus, flows, submitted>>
     ELSE IF quote = NoQuote
       THEN /\ error' = "Failed to get quote. Please try again."
            /\ UNCHANGED <<isProcessing, success, paymentStatus, flows, submitted>>
     ELSE IF InsufficientBalance
       THEN /\ error' = "Insufficient balance"
            /\ UNCHANGED <<isProcessing, success, paymentStatus, flows, submitted>>
     ELSE /\ submitted < MaxFlows
          /\ submitted' = submitted + 1
          /\ isProcessing' = TRUE
          /\ error' = NoError
          /\ success' = FALSE
          /\ paymentStatus' = "processing"
          /\ flows' = [f \in DOMAIN flows \cup {submitted + 1} |->
                         IF f = submitted + 1 THEN NewFlow ELSE flows[f]]
  /\ UNCHANGED <<payments, view, isLoading, publicKey, amount, selectedToken, quote,
                 tokenBalance, isLoadingBalance, balanceToken, quoteTimer, quoteCall,
                 balanceFetches, edits, probe>>

\* The invocation f has returned.
Finished(f) ==
  [g \in DOMAIN flows \ {f} |-> flows[g]]

\* The catch block were it to leave out setPaymentStatus('failed').
CatchFinally_NoStatus(f) ==
  /\ flows' = Finished(f)
  /\ IF flows[f].live
       THEN /\ error' = "Payment failed. Please try again."
            /\ isProcessing' = FALSE
            /\ UNCHANGED paymentStatus
       ELSE UNCHANGED <<error, paymentStatus, isProcessing>>
  /\ UNCHANGED <<payments, view, isLoading, publicKey, amount, selectedToken, quote,
                 success, tokenBalance, isLoadingBalance, balanceToken, quoteTimer,
                 quoteCall, balanceFetches, submitted, edits, probe>>

\* The catch block with no finally block after it.
CatchFinally_NoFinally(f) ==
  /\ flows' = Finished(f)
  /\ IF flows[f].live
       THEN /\ error' = "Payment failed. Please try again."
            /\ paymentStatus' = "failed"
            /\ UNCHANGED isProcessing
       ELSE UNCHANGED <<error, paymentStatus, isProcessing>>
  /\ UNCHANGED <<payments, view, isLoading, publicKey, amount, selectedToken, quote,
                 success, tokenBalance, isLoadingBalance, balanceToken, quoteTimer,
                 quoteCall, balanceFetches, submitted, edits, probe>>

\* The catch and finally blocks (lines 361-367) of invocation f.
CatchFinally(f) ==
  /\ flows' = Finished(f)
  /\ IF Live(f)
       THEN /\ error' = "Payment failed. Please try again."
            /\ paymentStatus' = "failed"
            /\ isProcessing' = FALSE
       ELSE UNCHANGED <<error, paymentStatus, isProcessing>>
  /\ UNCHANGED <<payments, view, isLoading, publicKey, amount, selectedToken, quote,
                 success, tokenBalance, isLoadingBalance, balanceToken, quoteTimer,
                 quoteCall, balanceFetches, submitted, edits, probe>>

\* The 1500 ms wait is over: executeSwap runs (it only computes, it cannot
\* throw, and its promise is resolved at once), then createPaymentTransaction
\* is called with its outputAmount.
SwapDelayDone ==
  /\ Idle
  /\ \E f \in DOMAIN flows :
       /\ flows[f].pc = "swapDelay"
       /\ LET swapResult == executeSwap(FindToken(flows[f].selectedToken, TOKENS.SOL),
                                        preferredTokenInfo, flows[f].amount,
                                        DefaultSlippageBps)
          IN  flows' = [flows EXCEPT ![f] =
                 [@ EXCEPT !.pc = "build",
                           !.swapResult = swapResult,
                           !.buildAmount = swapResult.outputAmount]]
  /\ UNCHANGED <<payments, view, isLoading, publicKey, formVars, isLoadingBalance,
                 quoteTimer, quoteCall, balanceFetches, submitted, edits, probe>>

\* createPaymentTransaction returns a transaction; setPaymentStatus('confirming');
\* mockSendTransaction is called with it (it only logs it).
BuildReturns ==
  /\ Idle
  /\ \E f \in DOMAIN flows, getAccountReturns \in BOOLEAN :
       /\ flows[f].pc = "build"
       /\ ~createPaymentTransaction(flows[f].buildAmount, flows[f].buildToken,
                                    flows[f].publicKey, merchantAddress,
                                    getAccountReturns).threw
       /\ flows' = [flows EXCEPT ![f].pc = "send"]
       /\ paymentStatus' = IF Live(f) THEN "confirming" ELSE paymentStatus
  /\ UNCHANGED <<payments, view, isLoading, publicKey, amount, selectedToken,
                 isProcessing, quote, error, success, tokenBalance, isLoadingBalance,
                 balanceToken, quoteTimer, quoteCall, balanceFetches, submitted, edits,
                 probe>>

\* createPaymentTransaction throws: connection.getLatestBlockhash is a call to
\* the public RPC endpoint, which can fail.
BuildThrows ==
  /\ Idle
  /\ \E f \in DOMAIN flows :
       /\ flows[f].pc = "build"
       /\ CatchFinally(f)

\* mockSendTransaction returns a signature after its 1000 ms.
SendReturns ==
  /\ Idle
  /\ \E f \in DOMAIN flows, sig \in Signatures :
       /\ flows[f].pc = "send"
       /\ flows' = [flows EXCEPT ![f] = [@ EXCEPT !.pc = "confirmDelay",
                                                  !.txSignature = sig]]
  /\ UNCHANGED <<payments, view, isLoading, publicKey, formVars, isLoadingBalance,
                 quoteTimer, quoteCall, balanceFetches, submitted, edits, probe>>

\* mockSendTransaction throws 'Failed to send transaction' (its catch block:
\* Buffer is not defined in a browser without a polyfill).
SendThrows ==
  /\ Idle
  /\ \E f \in DOMAIN flows :
       /\ flows[f].pc = "send"
       /\ CatchFinally(f)

\* The payment record of lines 317-326 and 346-355 (no timestamp); 'payment-'
\* + Date.now() is the ordinal of the submission after the three initial ones.
PaymentRecord(f) ==
  [ id             |-> "payment-" \o ToString(f + 3),
    amount         |-> IF flows[f].selectedToken # preferredToken
                         THEN flows[f].swapResult.outputAmount
                         ELSE flows[f].amount,
    token          |-> IF flows[f].selectedToken # preferredToken
                         THEN preferredToken
                         ELSE flows[f].selectedToken,
    status         |-> "completed",
    merchantId     |-> merchantAddress,
    customerWallet |-> flows[f].publicKey,
    txSignature    |-> flows[f].txSignature ]

\* App.handlePaymentComplete as the closure the invocation holds:
\* setPayments([...payments, payment]).
handlePaymentComplete(closurePayments, payment) ==
  Append(closurePayments, payment)

\* The 2000 ms confirmation wait is over: the record is built and emitted,
\* then the finally block runs.
ConfirmDelayDone ==
  /\ Idle
  /\ \E f \in DOMAIN flows :
       /\ flows[f].pc = "confirmDelay"
       /\ payments' = handlePaymentComplete(flows[f].closurePayments, PaymentRecord(f))
       /\ flows' = Finished(f)
       /\ IF Live(f)
            THEN /\ paymentStatus' = "completed"
                 /\ success' = TRUE
                 /\ isProcessing' = FALSE
            ELSE UNCHANGED <<paymentStatus, success, isProcessing>>
  /\ UNCHANGED <<view, isLoading, publicKey, amount, selectedToken, quote, error,
                 tokenBalance, isLoadingBalance, balanceToken, quoteTimer, quoteCall,
                 balanceFetches, submitted, edits, probe>>

(***************************************************************************)
(* The application                                                         *)
(***************************************************************************)
Init ==
  /\ payments = InitialPayments
  /\ view = "customer"
  /\ isLoading = TRUE
  /\ publicKey = NoKey
  /\ amount = Whole(1)
  /\ selectedToken = TOKENS.SOL.mint
  /\ isProcessing = FALSE
  /\ quote = NoQuote
  /\ error = NoError
  /\ success = FALSE
  /\ tokenBalance = NoBalance
  /\ isLoadingBalance = FALSE
  /\ paymentStatus = "idle"
  /\ balanceToken = "none"
  /\ quoteTimer = NoTimer
  /\ quoteCall = NoCall
  /\ balanceFetches = << >>
  /\ flows = NoFlows
  /\ submitted = 0
  /\ edits = 0
  /\ probe = NoProbe

Next ==
  \/ LoadingDone
  \/ ToggleView
  \/ WalletConnect
  \/ WalletDisconnect
  \/ BalanceResolve
  \/ ChangeAmount
  \/ SelectToken
  \/ ClickMax
  \/ QuoteTimerFires
  \/ QuoteResolves
  \/ ResetForm
  \/ HandleSubmit
  \/ SwapDelayDone
  \/ BuildReturns
  \/ BuildThrows
  \/ SendReturns
  \/ SendThrows
  \/ ConfirmDelayDone

Spec ==
  Init /\ [][Next]_vars

\* Every awaited step of handleSubmit eventually returns or throws: the 1500 ms
\* and 2000 ms timers expire, createPaymentTransaction and mockSendTransaction
\* settle.  A settled promise or an expired timer is a queued task, and the
\* event loop runs queued tasks in order however many others are queued after
\* it, so the step is taken even if continuations of getQuote keep running in
\* between (strong fairness).  An invocation takes at most four such steps, so
\* fairness to the steps of all invocations together lets each of them end.
\* The continuation of getQuote is a microtask and runs as soon as it is due.
AwaitedStepsSettle ==
  /\ SF_vars(SwapDelayDone \/ BuildReturns \/ BuildThrows \/ SendReturns \/ SendThrows
               \/ ConfirmDelayDone)
  /\ WF_vars(QuoteResolves)

FairSpec ==
  Init /\ [][Next]_vars /\ AwaitedStepsSettle

(***************************************************************************)
(* The helper functions on their own: getQuote, executeSwap and            *)
(* getMockExchangeRate applied to every pair of registry tokens            *)
(***************************************************************************)
FnAmounts ==
  {Rat(1, 2), Whole(1), Whole(2), Whole(3)}

FnInputs ==
  { [fn |-> "input", inputToken |-> i, outputToken |-> o, amount |-> a,
     quote |-> NoQuote, swap |-> NoSwap, rate |-> << >>, reverseRate |-> << >>] :
       i \in TokenValues, o \in TokenValues, a \in FnAmounts }

\* A mint that is a valid public key but is not in TOKENS.
UnknownMint ==
  "mSoLzYCxHdYgdzU16g5QSh3i5K3z3KZK7ytfqcJm7So"

NoTransaction ==
  [threw |-> FALSE, instructions |-> << >>]

\* 0.0000001 is below one base unit of a 6-decimal token; 1.234567 is not a
\* whole number of base units of BONK (5 decimals).
BuildAmounts ==
  {Rat(1, 10000000), Whole(1), Rat(275, 100), Rat(1234567, 1000000)}

\* The arguments of a createPaymentTransaction call, and whether the
\* receiver's associated token account exists on chain.
BuildInputs ==
  { [fn |-> "build", amount |-> a, tokenMint |-> m, accountExists |-> e,
     called |-> FALSE, getAccountReturns |-> FALSE, tx |-> NoTransaction] :
       a \in BuildAmounts, m \in Mints \cup {UnknownMint}, e \in BOOLEAN }

\* The state and props fetchQuote reads: the selected and the preferred token
\* identifiers and the amount.
RequestInputs ==
  { [fn |-> "request", selectedToken |-> sel, preferredToken |-> pref, amount |-> Whole(1),
     called |-> FALSE, quote |-> NoQuote, error |-> NoError] :
       sel \in Mints \cup {UnknownMint}, pref \in {TOKENS.USDC.mint, UnknownMint} }

\* fetchQuote of PaymentForm for amount > 0, as a function of the identifiers:
\* selectedTokenInfo and preferredTokenInfo are looked up with their
\* fallbacks (lines 186-187); the quote is built in place when the
\* identifiers are equal and by getQuote otherwise.
fetchQuote(sel, pref, a) ==
  LET selInfo  == FindToken(sel, TOKENS.SOL)
      prefInfo == FindToken(pref, TOKENS.USDC)
  IN  IF sel = pref
        THEN [ quote |-> [ inputMint      |-> sel,
                           outputMint     |-> pref,
                           inAmount       |-> ScaleUnits(a, selInfo.decimals),
                           outAmount      |-> ScaleUnits(a, prefInfo.decimals),
                           platformFee    |-> [amount |-> ZeroUnits(selInfo.decimals),
                                               feeBps |-> 0],
                           priceImpactPct |-> Whole(0) ],
               error |-> NoError ]
        ELSE [ quote |-> getQuote(selInfo, prefInfo, a), error |-> NoError ]

FnInit ==
  /\ payments = InitialPayments
  /\ view = "customer"
  /\ isLoading = TRUE
  /\ publicKey = NoKey
  /\ amount = Whole(1)
  /\ selectedToken = TOKENS.SOL.mint
  /\ isProcessing = FALSE
  /\ quote = NoQuote
  /\ error = NoError
  /\ success = FALSE
  /\ tokenBalance = NoBalance
  /\ isLoadingBalance = FALSE
  /\ paymentStatus = "idle"
  /\ balanceToken = "none"
  /\ quoteTimer = NoTimer
  /\ quoteCall = NoCall
  /\ balanceFetches = << >>
  /\ flows = NoFlows
  /\ submitted = 0
  /\ edits = 0
  /\ probe \in FnInputs \cup BuildInputs \cup RequestInputs

CallGetQuote ==
  /\ probe.fn = "input"
  /\ probe.quote = NoQuote
  /\ probe' = [probe EXCEPT !.quote = getQuote(probe.inputToken, probe.outputToken,
                                               probe.amount)]
  /\ UNCHANGED appVars

CallExecuteSwap ==
  /\ probe.fn = "input"
  /\ probe.swap = NoSwap
  /\ probe' = [probe EXCEPT !.swap = executeSwap(probe.inputToken, probe.outputToken,
                                                 probe.amount, DefaultSlippageBps)]
  /\ UNCHANGED appVars

CallGetMockExchangeRate ==
  /\ probe.fn = "input"
  /\ probe.rate = << >>
  /\ probe' = [probe EXCEPT
       !.rate = getMockExchangeRate(probe.inputToken.symbol, probe.outputToken.symbol),
       !.reverseRate = getMockExchangeRate(probe.outputToken.symbol,
                                           probe.inputToken.symbol)]
  /\ UNCHANGED appVars

\* createPaymentTransaction with getLatestBlockhash answering.  getAccount can
\* only return an account that exists; it throws TokenAccountNotFoundError for
\* one that does not, and it throws as well when the RPC request itself fails.
CallCreatePaymentTransaction ==
  /\ probe.fn = "build"
  /\ ~probe.called
  /\ \E getAccountReturns \in BOOLEAN :
       /\ getAccountReturns => probe.accountExists
       /\ probe' = [probe EXCEPT
            !.called = TRUE,
            !.getAccountReturns = getAccountReturns,
            !.tx = createPaymentTransaction(probe.amount, probe.tokenMint, WalletKey,
                                            merchantAddress, getAccountReturns)]
  /\ UNCHANGED appVars

\* The debounced fetchQuote runs for the probe's identifiers.
CallFetchQuote ==
  /\ probe.fn = "request"
  /\ ~probe.called
  /\ RatLess(Whole(0), probe.amount)
  /\ LET res == fetchQuote(probe.selectedToken, probe.preferredToken, probe.amount)
     IN  probe' = [probe EXCEPT !.called = TRUE, !.quote = res.quote, !.error = res.error]
  /\ UNCHANGED appVars

FnNext ==
  \/ CallGetQuote
  \/ CallExecuteSwap
  \/ CallGetMockExchangeRate
  \/ CallCreatePaymentTransaction
  \/ CallFetchQuote

FnSpec ==
  FnInit /\ [][FnNext]_vars

(***************************************************************************)
(* Properties                                                              *)
(***************************************************************************)
\* This step is handleSubmit passing its checks.
Accepts ==
  submitted' = submitted + 1

\* C1 (as stated): handleSubmit accepts a submission only if a public key is
\* present, a quote is held, and a balance has been fetched for the selected
\* token with the entered amount at most that balance.
C1_AcceptsOnlyWithFetchedBalance ==
  [][Accepts => /\ publicKey # NoKey
                /\ quote # NoQuote
                /\ tokenBalance # NoBalance
                /\ balanceToken = selectedToken
                /\ ~RatLess(tokenBalance, amount)]_vars

\* C1 (amended): handleSubmit accepts a submission (isProcessing becomes true
\* and paymentStatus processing) only if a public key is present, a quote is
\* held, and the balance held, if any, is at least the entered amount; with no
\* balance held the balance check is skipped, and the balance held may be the
\* one fetched for a previously selected token.  isProcessing becomes true in
\* no other step.
C1_AcceptsOnlyPastGuards ==
  [][/\ Accepts => /\ publicKey # NoKey
                   /\ quote # NoQuote
                   /\ tokenBalance = NoBalance \/ ~RatLess(tokenBalance, amount)
                   /\ isProcessing' /\ paymentStatus' = "processing"
     /\ (~isProcessing /\ isProcessing') => Accepts]_vars

\* A submission was accepted while no balance was held.
C1_Witness ==
  /\ isProcessing
  /\ paymentStatus = "processing"
  /\ tokenBalance = NoBalance
  /\ submitted > 0

\* C2: the payments list only grows: every record in it stays at its place,
\* unchanged, in every later state.
C2_PaymentsOnlyGrow ==
  [][/\ Len(payments') >= Len(payments)
     /\ \A i \in DOMAIN payments : payments'[i] = payments[i]]_vars

\* The position of an invocation in its try block.
StepRank(pc) ==
  CASE pc = "swapDelay"    -> 1
    [] pc = "build"        -> 2
    [] pc = "send"         -> 3
    [] pc = "confirmDelay" -> 4

\* What an invocation at its position has behind it.
StepsInOrder(fl) ==
  /\ (fl.selectedToken # preferredToken /\ StepRank(fl.pc) >= 2) =>
       /\ fl.swapResult # NoSwap
       /\ fl.buildAmount = fl.swapResult.outputAmount
       /\ fl.buildToken = preferredToken
  /\ (fl.selectedToken # preferredToken /\ StepRank(fl.pc) < 2) => fl.swapResult = NoSwap
  /\ fl.selectedToken = preferredToken => StepRank(fl.pc) >= 2
  /\ StepRank(fl.pc) >= 4 <=> fl.txSignature \in Signatures

\* C3: within one accepted submission executeSwap returns before
\* createPaymentTransaction is called (swap path), createPaymentTransaction
\* returns before paymentStatus becomes confirming and mockSendTransaction is
\* called, and the submission completes and emits its record only after
\* mockSendTransaction has returned a signature.
C3_StepsSequential ==
  [][/\ \A f \in DOMAIN flows' :
          /\ StepsInOrder(flows'[f])
          /\ f \in DOMAIN flows =>
               \/ flows'[f].pc = flows[f].pc
               \/ StepRank(flows'[f].pc) = StepRank(flows[f].pc) + 1
     /\ (paymentStatus' = "confirming" /\ paymentStatus # "confirming") =>
          \E f \in DOMAIN flows :
            f \in DOMAIN flows' /\ flows[f].pc = "build" /\ flows'[f].pc = "send"
     /\ (payments' # payments
           \/ (paymentStatus' = "completed" /\ paymentStatus # "completed")) =>
          \E f \in DOMAIN flows \ DOMAIN flows' :
            /\ flows[f].pc = "confirmDelay"
            /\ flows[f].txSignature \in Signatures
            /\ payments'[Len(payments')].txSignature = flows[f].txSignature]_vars

\* A swap submission has completed in the mounted form.
C3_Witness ==
  /\ mounted
  /\ paymentStatus = "completed"
  /\ success
  /\ selectedToken # preferredToken
  /\ Len(payments) > Len(InitialPayments)

\* This step is a step of invocation f throwing.
Throws(f) ==
  /\ f \in DOMAIN flows \ DOMAIN flows'
  /\ flows[f].pc # "confirmDelay"

\* C4 (as stated): when a step of an accepted submission throws,
\* paymentStatus becomes failed and isProcessing false.
C4_FailureSetsFailed ==
  [][\A f \in DOMAIN flows :
       Throws(f) => (paymentStatus' = "failed" /\ ~isProcessing')]_vars

\* C4 (amended): when a step of an accepted submission throws, paymentStatus
\* becomes failed and isProcessing false if the form that accepted it is still
\* mounted (if the view was switched meanwhile no state is set); the
\* submission does nothing more (its record is not emitted and it never runs
\* again), and no step of a submission is invoked a second time.
C4_FailureNoRetry ==
  [][/\ \A f \in DOMAIN flows :
          Throws(f) =>
            /\ Live(f) => (paymentStatus' = "failed" /\ ~isProcessing')
            /\ payments' = payments
     /\ \A f \in DOMAIN flows' :
          IF f \in DOMAIN flows
            THEN StepRank(flows'[f].pc) >= StepRank(flows[f].pc)
            ELSE f = submitted + 1 /\ Accepts]_vars

\* A submission has failed in the mounted form.
C4_Witness ==
  /\ mounted
  /\ paymentStatus = "failed"
  /\ error = "Payment failed. Please try again."
  /\ ~isProcessing
  /\ submitted > 0

\* The quote was computed for this amount and this selected token.
QuoteIsFor(q, a, mint) ==
  /\ q.inputMint = mint
  /\ q.outputMint = preferredToken
  /\ q.inAmount = ScaleUnits(a, FindToken(mint, TOKENS.SOL).decimals)

C6_AcceptedQuoteIsCurrent ==
  [][Accepts => QuoteIsFor(quote, amount, selectedToken)]_vars

\* amount x rate(selected, preferred) x (1 - 0.005)
SwappedAmount(a, mint) ==
  RatMul(RatMul(a, getMockExchangeRate(FindToken(mint, TOKENS.SOL).symbol, "USDC")),
         RatSub(Whole(1), Rat(5, 1000)))

\* This step is invocation f reaching completed.
Completes(f) ==
  /\ f \in DOMAIN flows \ DOMAIN flows'
  /\ flows[f].pc = "confirmDelay"

\* C7: a submission that reaches completed emits, in that step and in no
\* other, one Payment record with status completed, token the preferred
\* token's mint, and amount the entered amount on the direct path or
\* amount x rate x (1 - 0.005) on the swap path.
C7_CompletedRecord ==
  [][/\ \A f \in DOMAIN flows :
          Completes(f) =>
            LET p == payments'[Len(payments')]
            IN  /\ p.status = "completed"
                /\ p.token = TOKENS.USDC.mint
                /\ p.amount = IF flows[f].selectedToken = preferredToken
                                THEN flows[f].amount
                                ELSE SwappedAmount(flows[f].amount, flows[f].selectedToken)
                /\ Cardinality({i \in DOMAIN payments' : payments'[i] = p}) = 1
                /\ \A i \in DOMAIN payments : payments[i] # p
     /\ payments' # payments =>
          Cardinality({f \in DOMAIN flows : Completes(f)}) = 1]_vars

\* Both paths have completed: the record of a swap of 1 SOL and the record of
\* a direct payment of 1 USDC are in the list.
C7_Witness ==
  \E i, j \in DOMAIN payments :
    /\ i > Len(InitialPayments)
    /\ j > Len(InitialPayments)
    /\ payments[i].amount = SwappedAmount(Whole(1), TOKENS.SOL.mint)
    /\ payments[j].amount = Whole(1)
    /\ payments[i].token = preferredToken
    /\ payments[j].token = preferredToken

\* getQuote, executeSwap and getMockExchangeRate were applied to a swap input.
SwapProbed ==
  /\ probe.fn = "input"
  /\ probe.inputToken # probe.outputToken
  /\ probe.quote # NoQuote
  /\ probe.swap # NoSwap
  /\ probe.rate # << >>

\* C8 (as stated): for a swap, the quote's outAmount is amount x rate x
\* (1 - slippage) in output base units: what executeSwap produces, floored to
\* base units as the transfer is.
C8_QuoteOutIsSwapOut ==
  SwapProbed =>
    probe.quote.outAmount = FloorUnits(probe.swap.outputAmount, probe.outputToken.decimals)

\* C8 (amended): for a swap, the quote's outAmount is amount x rate in output
\* base units with no slippage taken off; it is the quote's
\* otherAmountThreshold that is amount x rate x (1 - slippage) in output base
\* units, the amount of base units the transfer built from executeSwap's
\* outputAmount carries.
C8_ThresholdIsSwapOut ==
  SwapProbed =>
    /\ probe.quote.outAmount =
         FloorUnits(RatMul(probe.amount, probe.rate), probe.outputToken.decimals)
    /\ probe.quote.otherAmountThreshold =
         FloorUnits(RatMul(RatMul(probe.amount, probe.rate), Rat(9950, 10000)),
                    probe.outputToken.decimals)
    /\ probe.quote.otherAmountThreshold =
         FloorUnits(probe.swap.outputAmount, probe.outputToken.decimals)

\* A swap whose output is not a whole number of base units was quoted and
\* executed.
C8_Witness ==
  /\ SwapProbed
  /\ probe.swap.outputAmount # probe.quote.otherAmountThreshold.q

\* C9: getQuote for a token to itself has outAmount equal to inAmount,
\* platform fee 0 and price impact 0.
C9_SameTokenPassThrough ==
  (probe.fn = "input" /\ probe.inputToken = probe.outputToken /\ probe.quote # NoQuote) =>
    /\ probe.quote.outAmount = probe.quote.inAmount
    /\ probe.quote.platformFee.amount.q = Whole(0)
    /\ probe.quote.platformFee.feeBps = 0
    /\ probe.quote.priceImpactPct = Whole(0)

\* The tolerance allowed to rate(A,B) x rate(B,A) = 1.
RateTolerance ==
  Rat(1, 1000)

\* C10: for distinct tokens A and B of the rate table, rate(A,B) x rate(B,A)
\* is 1 within the tolerance.
C10_RatesReciprocal ==
  ( /\ probe.fn = "input"
    /\ probe.rate # << >>
    /\ probe.inputToken # probe.outputToken
    /\ probe.inputToken.symbol \in DOMAIN rates
    /\ probe.outputToken.symbol \in DOMAIN rates )
    => ~RatLess(RateTolerance,
                RatAbsDiff(RatMul(probe.rate, probe.reverseRate), Whole(1)))

\* getMockExchangeRate was applied to the probe's pair of symbols.
RateProbed ==
  probe.fn = "input" /\ probe.rate # << >>

\* C11: getMockExchangeRate returns the direct table entry if there is one;
\* otherwise the reciprocal of the reverse entry; otherwise the product of the
\* entries (from, USDC) and (USDC, to); otherwise 1.  A pair with a symbol that
\* has no row in the table (JUP) gets exactly 1.
C11_RateResolutionOrder ==
  RateProbed =>
    LET from == probe.inputToken.symbol
        to   == probe.outputToken.symbol
    IN  /\ HasRate(from, to) => probe.rate = rates[from][to]
        /\ (~HasRate(from, to) /\ HasRate(to, from)) =>
             RatMul(probe.rate, rates[to][from]) = Whole(1)
        /\ (~HasRate(from, to) /\ ~HasRate(to, from)
              /\ HasRate(from, "USDC") /\ HasRate("USDC", to)) =>
             probe.rate = RatMul(rates[from]["USDC"], rates["USDC"][to])
        /\ (~HasRate(from, to) /\ ~HasRate(to, from)
              /\ ~(HasRate(from, "USDC") /\ HasRate("USDC", to))) =>
             probe.rate = Whole(1)
        /\ (from \notin DOMAIN rates \/ to \notin DOMAIN rates) =>
             (probe.rate = Whole(1) /\ probe.reverseRate = Whole(1))

\* The rate of JUP to SOL and back was resolved by the fallback; the bridge
\* through USDC resolves USDT to itself (1.002 x 0.998).
C11_Witness ==
  /\ RateProbed
  /\ probe.inputToken.symbol = "JUP"
  /\ probe.outputToken.symbol = "SOL"
  /\ probe.rate = Whole(1)
  /\ probe.reverseRate = Whole(1)
  /\ getMockExchangeRate("USDT", "USDT") = Rat(999996, 1000000)

\* C12: for a swap quote the platform fee is taken off the input before the
\* conversion: outAmount is (amount - 0.003 x amount) x rate in output base
\* units, platformFee.amount is floor(0.003 x amount x 10^inputDecimals) and
\* feeBps is 30.
C12_FeeOffInputBeforeConversion ==
  SwapProbed =>
    /\ probe.quote.outAmount =
         FloorUnits(RatMul(RatSub(probe.amount, RatMul(probe.amount, FeeRate)), probe.rate),
                    probe.outputToken.decimals)
    /\ probe.quote.platformFee.amount =
         FloorUnits(RatMul(probe.amount, FeeRate), probe.inputToken.decimals)
    /\ probe.quote.platformFee.feeBps = 30

\* createPaymentTransaction was applied to the probe and returned a transaction.
Built ==
  probe.fn = "build" /\ probe.called /\ ~probe.tx.threw

\* The kinds of the operations of a transaction, in order.
Ops(tx) ==
  [i \in DOMAIN tx.instructions |-> tx.instructions[i].op]

TransferOps ==
  {"systemTransfer", "tokenTransfer"}

\* C13: for a fungible registry token createPaymentTransaction returns exactly
\* budget, create associated account (payer the sender), transfer when the
\* receiver's token account does not exist, and exactly budget, transfer when
\* it exists: the create operation is there if and only if the account is not.
C13_CreateIffAccountAbsent ==
  (Built /\ probe.tokenMint \in Mints \ {TOKENS.SOL.mint}) =>
     IF probe.accountExists
       THEN Ops(probe.tx) = <<"setComputeUnitLimit", "tokenTransfer">>
       ELSE /\ Ops(probe.tx) = <<"setComputeUnitLimit", "createAssociatedTokenAccount",
                                "tokenTransfer">>
            /\ probe.tx.instructions[2].payer = WalletKey

\* C14: every transaction createPaymentTransaction returns has the compute
\* budget operation first and exactly one transfer operation, which is last;
\* for SOL it is exactly the budget operation and one transfer of
\* floor(amount x 10^9) lamports from the sender to the receiver.
C14_BudgetFirstTransferLast ==
  Built =>
    LET ins == probe.tx.instructions
    IN  /\ Len(ins) >= 2
        /\ ins[1].op = "setComputeUnitLimit"
        /\ ins[Len(ins)].op \in TransferOps
        /\ Cardinality({i \in DOMAIN ins : ins[i].op \in TransferOps}) = 1
        /\ probe.tokenMint = "So11111111111111111111111111111111111111112" =>
             /\ Ops(probe.tx) = <<"setComputeUnitLimit", "systemTransfer">>
             /\ ins[2].fromPubkey = WalletKey
             /\ ins[2].toPubkey = merchant.walletAddress
             /\ ins[2].lamports = FloorUnits(probe.amount, 9)
             /\ ins[2].lamports.dec = 9
             /\ ins[2].lamports.q = probe.amount

\* A transaction was built for 2.75 SOL: two operations, the second a
\* transfer of 2.75 x 10^9 lamports.
C14_Witness ==
  /\ Built
  /\ probe.tokenMint = TOKENS.SOL.mint
  /\ probe.amount = Rat(275, 100)
  /\ Len(probe.tx.instructions) = 2
  /\ probe.tx.instructions[2].lamports = [q |-> Rat(275, 100), dec |-> 9]

\* The base units the transfer operation of a built transaction carries.
TransferUnits(tx) ==
  LET t == tx.instructions[Len(tx.instructions)]
  IN  IF t.op = "systemTransfer" THEN t.lamports ELSE t.amount

\* The decimals of the token of a mint of the registry.
DecimalsOf(mint) ==
  (CHOOSE t \in TokenValues : t.mint = mint).decimals

\* C15: the transfer operation carries floor(amount x 10^decimals) base units
\* of the token: what is below one base unit is dropped, so 0.0000001 of a
\* token of 6 (or 5) decimals is a transfer of 0 base units, 1.234567 BONK is
\* 123456 base units, and the build succeeds all the same.
C15_FlooredToBaseUnits ==
  (probe.fn = "build" /\ probe.called /\ probe.tokenMint \in Mints) =>
    /\ ~probe.tx.threw
    /\ TransferUnits(probe.tx) = FloorUnits(probe.amount, DecimalsOf(probe.tokenMint))
    /\ TransferUnits(probe.tx).dec = DecimalsOf(probe.tokenMint)
    /\ Pow10(DecimalsOf(probe.tokenMint)) % TransferUnits(probe.tx).q[2] = 0
    /\ (probe.amount = Rat(1, 10000000) /\ DecimalsOf(probe.tokenMint) <= 6) =>
         TransferUnits(probe.tx).q = Whole(0)
    /\ (probe.amount = Rat(1, 10000000) /\ DecimalsOf(probe.tokenMint) = 9) =>
         TransferUnits(probe.tx).q = Rat(100, 1000000000)
    /\ (probe.amount = Rat(1234567, 1000000) /\ DecimalsOf(probe.tokenMint) = 5) =>
         TransferUnits(probe.tx).q = Rat(123456, 100000)
    /\ (probe.amount = Rat(1234567, 1000000) /\ DecimalsOf(probe.tokenMint) >= 6) =>
         TransferUnits(probe.tx).q = probe.amount

\* A transaction was built for 0.0000001 USDC: its transfer carries 0 base
\* units.
C15_Witness ==
  /\ Built
  /\ probe.tokenMint = TOKENS.USDC.mint
  /\ probe.amount = Rat(1, 10000000)
  /\ TransferUnits(probe.tx).q = Whole(0)

\* C16: a quote request with an input or output token identifier that is not
\* in the registry fails with TokenNotFound and produces no quote.
C16_UnknownTokenNoQuote ==
  ( /\ probe.fn = "request"
    /\ probe.called
    /\ probe.selectedToken \notin Mints \/ probe.preferredToken \notin Mints )
    => (probe.quote = NoQuote /\ probe.error = "TokenNotFound")

\* C17: an accepted submission that ends in failed yields a Payment record
\* too: in the step in which it fails a record with status failed is added to
\* the payments list.
C17_FailureRecorded ==
  [][\A f \in DOMAIN flows :
       Throws(f) =>
         /\ Len(payments') = Len(payments) + 1
         /\ payments'[Len(payments')].status = "failed"
         /\ payments'[Len(payments')].customerWallet = flows[f].publicKey]_vars

\* C18: while a submission is in flight (isProcessing is true) paymentStatus is
\* processing or confirming: no quote fetch moves it to quoting or idle.
C18_InFlightStatus ==
  isProcessing => paymentStatus \in {"processing", "confirming"}

\* C19 (as stated): given that every awaited step returns or throws, every
\* accepted submission eventually reaches paymentStatus completed or failed,
\* with isProcessing false again.
C19_EveryFlightReachesFinalStatus ==
  isProcessing ~> (paymentStatus \in {"completed", "failed"} /\ ~isProcessing)

\* C19 (amended): given that every awaited step returns or throws, every
\* accepted submission eventually ends (no invocation of handleSubmit is left
\* running) and isProcessing eventually becomes
\* false again; the step in which a submission ends sets paymentStatus to
\* completed or failed and isProcessing to false if the form that accepted it
\* is still mounted.  If that form was unmounted meanwhile (the view was
\* switched) the submission still ends, but no paymentStatus is set.
C19_SubmissionsEnd ==
  /\ (DOMAIN flows # {}) ~> (DOMAIN flows = {})
  /\ isProcessing ~> ~isProcessing
  /\ [][\A f \in DOMAIN flows :
          (f \notin DOMAIN flows' /\ Live(f)) =>
            (paymentStatus' \in {"completed", "failed"} /\ ~isProcessing')]_vars

\* Every accepted submission has ended, the last one in the mounted form.
C19_Witness ==
  /\ submitted > 0
  /\ DOMAIN flows = {}
  /\ mounted
  /\ paymentStatus \in {"completed", "failed"}
  /\ ~isProcessing

=========================================================================
